---- MODULE Spec2Model ----
(***************************************************************************)
(* The Sudoku engine of ucakyunus/sudoku: SudokuGenerator (generateSolution,*)
(* fillGrid, findEmptyCell, isValidPlacement, createPuzzle, countSolutions, *)
(* solvePuzzle, solve, shuffleArray, randomInRange).                        *)
(*                                                                         *)
(* The three backtracking searches are recursive in the source.  They are  *)
(* modelled as a machine with an explicit call stack: one frame per active *)
(* call that is inside its for-loop, `pc` the position of the running call *)
(* ("call": at its first line, "loop": at the head of its for-loop,        *)
(* "return": it has just returned to its caller), `arg`/`ret` the value    *)
(* passed to / returned by the call in flight.                             *)
(* Arrays of the source are 0-based; `grid` keeps the 0-based rows and     *)
(* columns, the one-dimensional arrays (numbers, positions) are sequences, *)
(* so that array[i] of the source is array[i + 1] here.                    *)
(***************************************************************************)
EXTENDS Integers, Sequences, FiniteSets, TLC

VARIABLES
  op,        \* the public operation being executed
  pc,        \* position inside it
  grid,      \* the grid being worked on (generateSolution: grid, createPuzzle: puzzle, solvePuzzle: solution)
  stack,     \* frames of the active recursive calls (fillGrid / countSolutions / solve)
  arg,       \* countSolutions: the `count` argument of the call in flight
  ret,       \* return value of the recursive call that has just returned
  rng,       \* the state of Math.random
  solution,  \* createPuzzle's `solution` argument
  carve,     \* createPuzzle's locals
  puzzle,    \* the argument of solvePuzzle / of the top-level countSolutions
  result,    \* what the public operations have returned so far
  query,     \* isValidPlacement's arguments (row, col, num) once it has been called, <<0, 0, 0>> before
  board,     \* game store: board (Cell[][]); also the board handed to SudokuValidator
  game,      \* game store: the other refs (solution, score, hintsUsed, moveHistory, ...)
  records,   \* records store: records
  added,     \* the records handed to addRecord since the last clearRecords
  storage,   \* localStorage: the item 'sudoku-records', Null when absent
  now,       \* Date.now(), in milliseconds
  call       \* the last call made to a store or to SudokuValidator, with what it returned

vars == <<op, pc, grid, stack, arg, ret, rng, solution, carve, puzzle, result, query,
          board, game, records, added, storage, now, call>>

\* the state of SudokuGenerator's methods, and that of the stores and the validator
engineVars == <<op, pc, grid, stack, arg, ret, rng, solution, carve, puzzle, result, query>>
appVars == <<board, game, records, added, storage, now, call>>

----------------------------------------------------------------------------
(* types/sudoku.ts *)

GRID_SIZE == 9
BLOCK_SIZE == 3

DIFFICULTY_CONFIGS ==
  [beginner     |-> [min |-> 36, max |-> 40],
   intermediate |-> [min |-> 32, max |-> 36],
   hard         |-> [min |-> 28, max |-> 32],
   expert       |-> [min |-> 24, max |-> 28]]

Difficulty == {"beginner", "intermediate", "hard", "expert"}

Idx == 0..(GRID_SIZE - 1)
Digits == 1..9
Cells == Idx \X Idx

\* Array(GRID_SIZE) of Array(GRID_SIZE).fill(0)
EmptyGrid == [r \in Idx |-> [c \in Idx |-> 0]]

\* a grid written row by row as a tuple of tuples
ToGrid(rows) == [r \in Idx |-> [c \in Idx |-> rows[r + 1][c + 1]]]

Null == <<>>
\* a result slot no call has filled yet
Pending == <<"pending">>

Min(S) == CHOOSE x \in S : \A y \in S : x <= y

\* `null` where the source has `number | null` (a cell's value, endTime)
NoValue == -1

\* no call to tell of: none was made yet, or the last one was of an operation
\* that takes and returns nothing the properties speak of
NoCall == [name |-> "none", args |-> <<>>, returned |-> <<>>]
NoStores ==
  /\ board = <<>> /\ game = <<>> /\ records = <<>> /\ added = <<>>
  /\ storage = <<>> /\ now = 0 /\ call = NoCall

----------------------------------------------------------------------------
(* Math.random: a generator handing out the multiples of 1/RandomResolution *)
(* state/RandomResolution, advancing by `step` at every call.               *)

RandomResolution == 128

\* Math.floor(Math.random() * n)
RandomBelow(r, n) == (r.state * n) \div RandomResolution
Advance(r) == [r EXCEPT !.state = (@ + r.step) % RandomResolution]

\* randomInRange(min, max), the draw's value
randomInRange(r, min, max) == RandomBelow(r, max - min + 1) + min

Swap(a, i, j) == [a EXCEPT ![i] = a[j], ![j] = a[i]]

\* one iteration of shuffleArray's loop: j = floor(random() * (i + 1)), swap
\* (sh is bound to its value once, so that it is computed once)
ShuffleStep(sh, i) ==
  CHOOSE next \in {[array |-> Swap(s.array, i + 1, RandomBelow(s.rng, i + 1) + 1),
                    rng |-> Advance(s.rng)] : s \in {sh}} : TRUE

\* the iterations i = hi, hi - 1, ..., lo of shuffleArray's loop, in that order
\* (split in halves to keep the evaluation shallow; the upper half is bound
\* to its value before the lower half starts from it)
RECURSIVE shuffleRange(_, _, _)
shuffleRange(sh, hi, lo) ==
  IF hi < lo THEN sh
  ELSE IF hi = lo THEN ShuffleStep(sh, hi)
  ELSE CHOOSE last \in {shuffleRange(upper, (hi + lo) \div 2, lo) :
                           upper \in {shuffleRange(sh, hi, (hi + lo) \div 2 + 1)}} : TRUE

shuffleArray(array, r) == shuffleRange([array |-> array, rng |-> r], Len(array) - 1, 1)

----------------------------------------------------------------------------
(* SudokuGenerator: the pure helpers *)

\* a scan that stops one row early
findEmptyCellShort(g) ==
  LET empty == {p \in 0..(GRID_SIZE * (GRID_SIZE - 1) - 1) : g[p \div GRID_SIZE][p % GRID_SIZE] = 0}
  IN  IF empty = {} THEN Null
      ELSE <<Min(empty) \div GRID_SIZE, Min(empty) % GRID_SIZE>>

findEmptyCell(g) ==
  LET empty == {p \in 0..(GRID_SIZE * GRID_SIZE - 1) : g[p \div GRID_SIZE][p % GRID_SIZE] = 0}
  IN  IF empty = {} THEN Null
      ELSE <<Min(empty) \div GRID_SIZE, Min(empty) % GRID_SIZE>>

\* the block's origin taken as row / BLOCK_SIZE, col / BLOCK_SIZE
isValidPlacementBlockOrigin(g, row, col, num) ==
  /\ \A x \in Idx : g[row][x] # num
  /\ \A x \in Idx : g[x][col] # num
  /\ LET blockRow == row \div BLOCK_SIZE
         blockCol == col \div BLOCK_SIZE
     IN  \A i \in 0..(BLOCK_SIZE - 1) : \A j \in 0..(BLOCK_SIZE - 1) :
            g[blockRow + i][blockCol + j] # num

\* the cell (row, col) itself left out of the three loops
isValidPlacementSkipSelf(g, row, col, num) ==
  /\ \A x \in Idx \ {col} : g[row][x] # num
  /\ \A x \in Idx \ {row} : g[x][col] # num
  /\ LET blockRow == (row \div BLOCK_SIZE) * BLOCK_SIZE
         blockCol == (col \div BLOCK_SIZE) * BLOCK_SIZE
     IN  \A i \in 0..(BLOCK_SIZE - 1) : \A j \in 0..(BLOCK_SIZE - 1) :
            (blockRow + i = row /\ blockCol + j = col) \/ g[blockRow + i][blockCol + j] # num

isValidPlacement(g, row, col, num) ==
  /\ \A x \in Idx : g[row][x] # num
  /\ \A x \in Idx : g[x][col] # num
  /\ LET blockRow == (row \div BLOCK_SIZE) * BLOCK_SIZE
         blockCol == (col \div BLOCK_SIZE) * BLOCK_SIZE
     IN  \A i \in 0..(BLOCK_SIZE - 1) : \A j \in 0..(BLOCK_SIZE - 1) :
            g[blockRow + i][blockCol + j] # num

\* for (const num of numbers) { if (isValidPlacement(...)) ... }: the index of
\* the first number from index k on that passes the test, Len + 1 if none does
NextCandidate(g, row, col, numbers, k) ==
  LET ok == {j \in k..Len(numbers) : isValidPlacement(g, row, col, numbers[j])}
  IN  IF ok = {} THEN Len(numbers) + 1 ELSE Min(ok)

OneToNine == <<1, 2, 3, 4, 5, 6, 7, 8, 9>>

\* a copy made with [...argument]: the rows are shared, a write to the copy
\* is a write to the argument
OriginalSharingRows(argument, copy) == copy

\* argument.map((row) => [...row]): the copy has rows of its own, so the
\* argument keeps its cells whatever the copy holds after a write
Original(argument, copy) == argument

Top == stack[Len(stack)]
Pop == SubSeq(stack, 1, Len(stack) - 1)
SetTop(f) == [stack EXCEPT ![Len(stack)] = f]

----------------------------------------------------------------------------
(* generateSolution / fillGrid *)

FillGridCall ==
  /\ op = "generateSolution" /\ pc = "call"
  /\ LET emptyCell == findEmptyCell(grid)
     IN  IF emptyCell = Null
         THEN /\ ret' = TRUE
              /\ pc' = "return"
              /\ UNCHANGED <<stack, rng>>
         ELSE LET sh == shuffleArray(OneToNine, rng)
              IN  /\ stack' = Append(stack, [row |-> emptyCell[1], col |-> emptyCell[2],
                                             numbers |-> sh.array, k |-> 1, count |-> 0])
                  /\ rng' = sh.rng
                  /\ pc' = "loop"
                  /\ UNCHANGED ret
  /\ UNCHANGED <<op, grid, arg, solution, carve, puzzle, result, query>>
  /\ UNCHANGED appVars

FillGridLoop ==
  /\ op = "generateSolution" /\ pc = "loop"
  /\ LET f == Top
         k == NextCandidate(grid, f.row, f.col, f.numbers, f.k)
     IN  IF k > Len(f.numbers)
         THEN /\ stack' = Pop
              /\ ret' = FALSE
              /\ pc' = "return"
              /\ UNCHANGED grid
         ELSE /\ grid' = [grid EXCEPT ![f.row][f.col] = f.numbers[k]]
              /\ stack' = SetTop([f EXCEPT !.k = k])
              /\ pc' = "call"
              /\ UNCHANGED ret
  /\ UNCHANGED <<op, arg, rng, solution, carve, puzzle, result, query>>
  /\ UNCHANGED appVars

\* a loop that tries the same number again after a failed attempt
FillGridReturnSameNumber ==
  /\ op = "generateSolution" /\ pc = "return" /\ stack # <<>>
  /\ LET f == Top
     IN  IF ret
         THEN /\ stack' = Pop
              /\ UNCHANGED <<grid, pc>>
         ELSE /\ grid' = [grid EXCEPT ![f.row][f.col] = 0]
              /\ stack' = SetTop(f)
              /\ pc' = "loop"
  /\ UNCHANGED <<op, arg, ret, rng, solution, carve, puzzle, result, query>>
  /\ UNCHANGED appVars

FillGridReturn ==
  /\ op = "generateSolution" /\ pc = "return" /\ stack # <<>>
  /\ LET f == Top
     IN  IF ret
         THEN /\ stack' = Pop
              /\ UNCHANGED <<grid, pc>>
         ELSE /\ grid' = [grid EXCEPT ![f.row][f.col] = 0]
              /\ stack' = SetTop([f EXCEPT !.k = f.k + 1])
              /\ pc' = "loop"
  /\ UNCHANGED <<op, arg, ret, rng, solution, carve, puzzle, result, query>>
  /\ UNCHANGED appVars

GenerateSolutionReturn ==
  /\ op = "generateSolution" /\ pc = "return" /\ stack = <<>>
  /\ result' = [result EXCEPT !.generated = grid]
  /\ pc' = "done"
  /\ UNCHANGED <<op, grid, stack, arg, ret, rng, solution, carve, puzzle, query>>
  /\ UNCHANGED appVars

----------------------------------------------------------------------------
(* countSolutions: runs inside createPuzzle and as a call of its own *)

CutoffReachedLate(count) == count > 2

\* if (count > 1) return count
CutoffReached(count) == count > 1

CountSolutionsCall ==
  /\ op \in {"createPuzzle", "countSolutions"} /\ pc = "call"
  /\ IF CutoffReached(arg)
     THEN /\ ret' = arg
          /\ pc' = "return"
          /\ UNCHANGED stack
     ELSE LET emptyCell == findEmptyCell(grid)
          IN  IF emptyCell = Null
              THEN /\ ret' = arg + 1
                   /\ pc' = "return"
                   /\ UNCHANGED stack
              ELSE /\ stack' = Append(stack, [row |-> emptyCell[1], col |-> emptyCell[2],
                                              numbers |-> OneToNine, k |-> 1, count |-> arg])
                   /\ pc' = "loop"
                   /\ UNCHANGED ret
  /\ UNCHANGED <<op, grid, arg, rng, solution, carve, puzzle, result, query>>
  /\ UNCHANGED appVars

CountSolutionsLoop ==
  /\ op \in {"createPuzzle", "countSolutions"} /\ pc = "loop"
  /\ LET f == Top
         k == NextCandidate(grid, f.row, f.col, f.numbers, f.k)
     IN  IF k > Len(f.numbers)
         THEN /\ stack' = Pop
              /\ ret' = f.count
              /\ pc' = "return"
              /\ UNCHANGED <<grid, arg>>
         ELSE /\ grid' = [grid EXCEPT ![f.row][f.col] = f.numbers[k]]
              /\ stack' = SetTop([f EXCEPT !.k = k])
              /\ arg' = f.count
              /\ pc' = "call"
              /\ UNCHANGED ret
  /\ solution' = IF op = "createPuzzle" THEN Original(solution, grid') ELSE solution
  /\ UNCHANGED <<op, rng, carve, puzzle, result, query>>
  /\ UNCHANGED appVars

\* the placement left in the grid
UndoPlacementSkipped(g, row, col) == g

\* countSolutions: grid[row][col] = 0 after the recursive call
UndoPlacement(g, row, col) == [g EXCEPT ![row][col] = 0]

CountSolutionsReturn ==
  /\ op \in {"createPuzzle", "countSolutions"} /\ pc = "return" /\ stack # <<>>
  /\ LET f == Top
     IN  /\ grid' = UndoPlacement(grid, f.row, f.col)
         /\ stack' = SetTop([f EXCEPT !.count = ret, !.k = f.k + 1])
         /\ pc' = "loop"
  /\ solution' = IF op = "createPuzzle" THEN Original(solution, grid') ELSE solution
  /\ UNCHANGED <<op, arg, ret, rng, carve, puzzle, result, query>>
  /\ UNCHANGED appVars

\* countSolutions(puzzle) called on its own
CallCountSolutions ==
  /\ pc = "done" /\ puzzle # Null /\ result.counted = -1
  /\ op' = "countSolutions"
  /\ grid' = puzzle
  /\ arg' = 0
  /\ pc' = "call"
  /\ UNCHANGED <<stack, ret, rng, solution, carve, puzzle, result, query>>
  /\ UNCHANGED appVars

CountSolutionsDone ==
  /\ op = "countSolutions" /\ pc = "return" /\ stack = <<>>
  /\ result' = [result EXCEPT !.counted = ret, !.countedGrid = grid]
  /\ pc' = "done"
  /\ UNCHANGED <<op, grid, stack, arg, ret, rng, solution, carve, puzzle, query>>
  /\ UNCHANGED appVars

----------------------------------------------------------------------------
(* createPuzzle *)

\* positions.push([row, col]) for row, col in row-major order
Positions ==
  LET n == GRID_SIZE * GRID_SIZE
  IN  SubSeq([p \in 1..n |-> <<(p - 1) \div GRID_SIZE, (p - 1) % GRID_SIZE>>], 1, n)

CreatePuzzleStart ==
  /\ op = "createPuzzle" /\ pc = "start"
  /\ LET config == DIFFICULTY_CONFIGS[carve.difficulty]
         cellsToShow == randomInRange(rng, config.min, config.max)
         sh == shuffleArray(Positions, Advance(rng))
     IN  /\ grid' = solution
         /\ carve' = [carve EXCEPT !.cellsToShow = cellsToShow,
                                   !.cellsToRemove = GRID_SIZE * GRID_SIZE - cellsToShow,
                                   !.positions = sh.array,
                                   !.i = 1, !.removed = 0, !.temp = 0]
         /\ rng' = sh.rng
  /\ pc' = "iterate"
  /\ UNCHANGED <<op, stack, arg, ret, solution, puzzle, result, query>>
  /\ UNCHANGED appVars

\* the loop left one cleared cell later
TargetReachedLate(removed, cellsToRemove) == removed > cellsToRemove

\* if (removed >= cellsToRemove) break
TargetReached(removed, cellsToRemove) == removed >= cellsToRemove

\* the head of the for-loop: leave it, or clear the next cell and count
CreatePuzzleIterate ==
  /\ op = "createPuzzle" /\ pc = "iterate"
  /\ IF carve.i > Len(carve.positions) \/ TargetReached(carve.removed, carve.cellsToRemove)
     THEN /\ result' = [result EXCEPT !.created = grid]
          /\ puzzle' = grid
          /\ pc' = "done"
          /\ UNCHANGED <<grid, carve, arg>>
     ELSE LET row == carve.positions[carve.i][1]
              col == carve.positions[carve.i][2]
          IN  /\ carve' = [carve EXCEPT !.temp = grid[row][col]]
              /\ grid' = [grid EXCEPT ![row][col] = 0]
              /\ arg' = 0
              /\ pc' = "call"
              /\ UNCHANGED <<result, puzzle>>
  /\ solution' = Original(solution, grid')
  /\ UNCHANGED <<op, stack, ret, rng, query>>
  /\ UNCHANGED appVars

KeepsClearedAnyCount(solutionCount) == solutionCount >= 1

\* if (solutionCount === 1)
KeepsCleared(solutionCount) == solutionCount = 1

RestoreCellTransposed(g, row, col, temp) == [g EXCEPT ![row][col] = solution[col][row]]

\* puzzle[row][col] = temp
RestoreCell(g, row, col, temp) == [g EXCEPT ![row][col] = temp]

\* countSolutions(puzzle) has returned to createPuzzle
CreatePuzzleCounted ==
  /\ op = "createPuzzle" /\ pc = "return" /\ stack = <<>>
  /\ LET row == carve.positions[carve.i][1]
         col == carve.positions[carve.i][2]
     IN  IF KeepsCleared(ret)
         THEN /\ carve' = [carve EXCEPT !.removed = @ + 1, !.i = @ + 1]
              /\ UNCHANGED grid
         ELSE /\ grid' = RestoreCell(grid, row, col, carve.temp)
              /\ carve' = [carve EXCEPT !.i = @ + 1]
  /\ pc' = "iterate"
  /\ solution' = Original(solution, grid')
  /\ UNCHANGED <<op, stack, arg, ret, rng, puzzle, result, query>>
  /\ UNCHANGED appVars

----------------------------------------------------------------------------
(* solvePuzzle / solve *)

UnplaceKeep(g, row, col) == g

\* solve: grid[row][col] = 0 after a failed attempt
Unplace(g, row, col) == [g EXCEPT ![row][col] = 0]

SolvePuzzleResultArgument(found, g) == IF found THEN puzzle ELSE Null

\* if (this.solve(solution)) return solution; return null
SolvePuzzleResult(found, g) == IF found THEN g ELSE Null

CallSolvePuzzle ==
  /\ pc = "done" /\ puzzle # Null /\ result.solved = Pending
  /\ op' = "solvePuzzle"
  /\ grid' = puzzle
  /\ pc' = "call"
  /\ UNCHANGED <<stack, arg, ret, rng, solution, carve, puzzle, result, query>>
  /\ UNCHANGED appVars

SolveCall ==
  /\ op = "solvePuzzle" /\ pc = "call"
  /\ LET emptyCell == findEmptyCell(grid)
     IN  IF emptyCell = Null
         THEN /\ ret' = TRUE
              /\ pc' = "return"
              /\ UNCHANGED stack
         ELSE /\ stack' = Append(stack, [row |-> emptyCell[1], col |-> emptyCell[2],
                                         numbers |-> OneToNine, k |-> 1, count |-> 0])
              /\ pc' = "loop"
              /\ UNCHANGED ret
  /\ UNCHANGED <<op, grid, arg, rng, solution, carve, puzzle, result, query>>
  /\ UNCHANGED appVars

SolveLoop ==
  /\ op = "solvePuzzle" /\ pc = "loop"
  /\ LET f == Top
         k == NextCandidate(grid, f.row, f.col, f.numbers, f.k)
     IN  IF k > Len(f.numbers)
         THEN /\ stack' = Pop
              /\ ret' = FALSE
              /\ pc' = "return"
              /\ UNCHANGED grid
         ELSE /\ grid' = [grid EXCEPT ![f.row][f.col] = f.numbers[k]]
              /\ stack' = SetTop([f EXCEPT !.k = k])
              /\ pc' = "call"
              /\ UNCHANGED ret
  /\ puzzle' = Original(puzzle, grid')
  /\ UNCHANGED <<op, arg, rng, solution, carve, result, query>>
  /\ UNCHANGED appVars

SolveReturn ==
  /\ op = "solvePuzzle" /\ pc = "return" /\ stack # <<>>
  /\ LET f == Top
     IN  IF ret
         THEN /\ stack' = Pop
              /\ UNCHANGED <<grid, pc>>
         ELSE /\ grid' = Unplace(grid, f.row, f.col)
              /\ stack' = SetTop([f EXCEPT !.k = f.k + 1])
              /\ pc' = "loop"
  /\ puzzle' = Original(puzzle, grid')
  /\ UNCHANGED <<op, arg, ret, rng, solution, carve, result, query>>
  /\ UNCHANGED appVars

SolvePuzzleReturn ==
  /\ op = "solvePuzzle" /\ pc = "return" /\ stack = <<>>
  /\ result' = [result EXCEPT !.solved = SolvePuzzleResult(ret, grid)]
  /\ pc' = "done"
  /\ UNCHANGED <<op, grid, stack, arg, ret, rng, solution, carve, puzzle, query>>
  /\ UNCHANGED appVars

----------------------------------------------------------------------------
(* scenarios *)

NoCarve == [difficulty |-> "beginner", cellsToShow |-> 0, cellsToRemove |-> 0,
            positions |-> <<>>, i |-> 0, removed |-> 0, temp |-> 0]
NoResult == [generated |-> Null, created |-> Null, counted |-> -1, countedGrid |-> Null,
             solved |-> Pending, valid |-> FALSE]

\* every random source of the scenarios: state/RandomResolution is the value
\* the next Math.random() returns, step what each call advances it by
MaxSeed == 5
RandomSteps == {1, 37}

InitGenerate ==
  /\ op = "generateSolution" /\ pc = "call"
  /\ grid = EmptyGrid
  /\ stack = <<>> /\ arg = 0 /\ ret = FALSE
  /\ \E s \in 0..MaxSeed, d \in RandomSteps : rng = [state |-> s, step |-> d]
  /\ solution = Null /\ carve = NoCarve /\ puzzle = Null
  /\ result = NoResult
  /\ query = <<0, 0, 0>>
  /\ NoStores

NextGenerate == FillGridCall \/ FillGridLoop \/ FillGridReturn \/ GenerateSolutionReturn

SpecGenerate == InitGenerate /\ [][NextGenerate]_vars

\* generateSolution is one synchronous call: once started it keeps executing
\* until it returns
SpecGenerateRuns == InitGenerate /\ [][NextGenerate]_vars /\ WF_vars(NextGenerate)

\* the grid fillGrid produces when every shuffle leaves the digits in order
\* (it is also what solve produces from the empty grid)
FirstSolution == ToGrid(<<
  <<1, 2, 3, 4, 5, 6, 7, 8, 9>>,
  <<4, 5, 6, 7, 8, 9, 1, 2, 3>>,
  <<7, 8, 9, 1, 2, 3, 4, 5, 6>>,
  <<2, 1, 4, 3, 6, 5, 8, 9, 7>>,
  <<3, 6, 5, 8, 9, 7, 2, 1, 4>>,
  <<8, 9, 7, 2, 1, 4, 3, 6, 5>>,
  <<5, 3, 1, 6, 4, 2, 9, 7, 8>>,
  <<6, 4, 2, 9, 7, 8, 5, 3, 1>>,
  <<9, 7, 8, 5, 3, 1, 6, 4, 2>> >>)

\* the grid generateSolution returns for the random source <<3, 37>>
ShuffledSolution == ToGrid(<<
  <<4, 8, 9, 6, 2, 7, 3, 1, 5>>,
  <<1, 5, 6, 9, 8, 3, 2, 4, 7>>,
  <<3, 7, 2, 5, 1, 4, 6, 9, 8>>,
  <<6, 9, 7, 8, 5, 2, 1, 3, 4>>,
  <<2, 1, 3, 7, 4, 9, 8, 5, 6>>,
  <<5, 4, 8, 3, 6, 1, 7, 2, 9>>,
  <<7, 2, 5, 1, 9, 6, 4, 8, 3>>,
  <<8, 6, 1, 4, 3, 5, 9, 7, 2>>,
  <<9, 3, 4, 2, 7, 8, 5, 6, 1>> >>)

CarveSolutions == {FirstSolution, ShuffledSolution}
CarveSeeds == {<<118, 13>>, <<80, 4>>}

\* createPuzzle(solution, difficulty), then solvePuzzle and countSolutions on
\* the puzzle it returned
Init ==
  /\ op = "createPuzzle" /\ pc = "start"
  /\ solution \in CarveSolutions
  /\ grid = solution
  /\ stack = <<>> /\ arg = 0 /\ ret = 0
  /\ \E s \in CarveSeeds : rng = [state |-> s[1], step |-> s[2]]
  /\ \E d \in Difficulty : carve = [NoCarve EXCEPT !.difficulty = d]
  /\ puzzle = Null
  /\ result = NoResult
  /\ query = <<0, 0, 0>>
  /\ NoStores

Next ==
  \/ CreatePuzzleStart \/ CreatePuzzleIterate \/ CreatePuzzleCounted
  \/ CountSolutionsCall \/ CountSolutionsLoop \/ CountSolutionsReturn
  \/ CallCountSolutions \/ CountSolutionsDone
  \/ CallSolvePuzzle \/ SolveCall \/ SolveLoop \/ SolveReturn \/ SolvePuzzleReturn

Spec == Init /\ [][Next]_vars

\* createPuzzle for the easiest and the hardest difficulty, then, when it has
\* returned with more cells than it aimed at, countSolutions on the puzzle
\* with one more cell cleared
CarvedDifficulties == {"beginner", "expert"}

CallCountSolutionsCleared(row, col) ==
  /\ op = "createPuzzle" /\ pc = "done" /\ result.counted = -1
  /\ puzzle[row][col] # 0
  /\ op' = "countSolutions"
  /\ grid' = [puzzle EXCEPT ![row][col] = 0]
  /\ arg' = 0
  /\ pc' = "call"
  /\ UNCHANGED <<stack, ret, rng, solution, carve, puzzle, result, query>>
  /\ UNCHANGED appVars

InitCarved == Init /\ carve.difficulty \in CarvedDifficulties

NextCarved ==
  \/ CreatePuzzleStart \/ CreatePuzzleIterate \/ CreatePuzzleCounted
  \/ CountSolutionsCall \/ CountSolutionsLoop \/ CountSolutionsReturn
  \/ \E row \in Idx, col \in Idx :
        /\ op = "createPuzzle" /\ pc = "done"
        /\ Cardinality({cell \in Cells : puzzle[cell[1]][cell[2]] # 0})
             > GRID_SIZE * GRID_SIZE - carve.cellsToRemove
        /\ CallCountSolutionsCleared(row, col)
  \/ CountSolutionsDone

SpecCarved == InitCarved /\ [][NextCarved]_vars

----------------------------------------------------------------------------
(* solvePuzzle and countSolutions on puzzles near a solution *)

\* the cells the puzzles differ from FirstSolution in: two pairs of cells of
\* rows 0 and 3 whose digits can be exchanged (1/2 in columns 0-1, 5/6 in
\* columns 4-5)
Region == {<<0, 0>>, <<0, 1>>, <<3, 0>>, <<3, 1>>, <<0, 4>>, <<0, 5>>, <<3, 4>>, <<3, 5>>}
TamperDigits == {1, 2}
MaxTamper == 1

\* FirstSolution with the cells of `cleared` emptied and those of `tamper`
\* overwritten
Edited(cleared, tamper) ==
  [r \in Idx |-> [c \in Idx |->
     IF <<r, c>> \in cleared THEN 0
     ELSE IF <<r, c>> \in DOMAIN tamper THEN tamper[<<r, c>>]
     ELSE FirstSolution[r][c]]]

Tampers ==
  UNION {[T -> TamperDigits] : T \in {T \in SUBSET Region : Cardinality(T) <= MaxTamper}}

InitSolve ==
  /\ op = "idle" /\ pc = "done"
  /\ \E cleared \in SUBSET Region, tamper \in Tampers :
        /\ DOMAIN tamper \cap cleared = {}
        /\ \A cell \in DOMAIN tamper : tamper[cell] # FirstSolution[cell[1]][cell[2]]
        /\ puzzle = Edited(cleared, tamper)
  /\ grid = puzzle
  /\ stack = <<>> /\ arg = 0 /\ ret = 0
  /\ rng = [state |-> 0, step |-> 0]
  /\ solution = Null /\ carve = NoCarve
  /\ result = NoResult
  /\ query = <<0, 0, 0>>
  /\ NoStores

NextSolve ==
  \/ CountSolutionsCall \/ CountSolutionsLoop \/ CountSolutionsReturn
  \/ CallCountSolutions \/ CountSolutionsDone
  \/ CallSolvePuzzle \/ SolveCall \/ SolveLoop \/ SolveReturn \/ SolvePuzzleReturn

SpecSolve == InitSolve /\ [][NextSolve]_vars

----------------------------------------------------------------------------
(* isValidPlacement on grids set up cell by cell, as its test does *)

MaxFilled == 1
PlacedDigits == {5}
QueryDigits == {1, 5}

Filled(g) == {cell \in Cells : g[cell[1]][cell[2]] # 0}

\* grid[r][c] = v
SetCell(r, c, v) ==
  /\ op = "isValidPlacement" /\ pc = "setup"
  /\ grid[r][c] = 0 /\ Cardinality(Filled(grid)) < MaxFilled
  /\ grid' = [grid EXCEPT ![r][c] = v]
  /\ UNCHANGED <<op, pc, stack, arg, ret, rng, solution, carve, puzzle, result, query>>
  /\ UNCHANGED appVars

CallIsValidPlacement(row, col, num) ==
  /\ op = "isValidPlacement" /\ pc = "setup"
  /\ query' = <<row, col, num>>
  /\ result' = [result EXCEPT !.valid = isValidPlacement(grid, row, col, num)]
  /\ pc' = "done"
  /\ UNCHANGED <<op, grid, stack, arg, ret, rng, solution, carve, puzzle>>
  /\ UNCHANGED appVars

InitPlacement ==
  /\ op = "isValidPlacement" /\ pc = "setup"
  /\ grid = EmptyGrid
  /\ stack = <<>> /\ arg = 0 /\ ret = 0
  /\ rng = [state |-> 0, step |-> 0]
  /\ solution = Null /\ carve = NoCarve /\ puzzle = Null
  /\ result = NoResult
  /\ query = <<0, 0, 0>>
  /\ NoStores

NextPlacement ==
  \/ \E r \in Idx, c \in Idx, v \in PlacedDigits : SetCell(r, c, v)
  \/ \E row \in Idx, col \in Idx, num \in QueryDigits : CallIsValidPlacement(row, col, num)

SpecPlacement == InitPlacement /\ [][NextPlacement]_vars

----------------------------------------------------------------------------
(* SudokuGenerator.getBlockIndex and SudokuValidator *)

\* the index computed column-first
getBlockIndexTransposed(row, col) == (col \div BLOCK_SIZE) * BLOCK_SIZE + (row \div BLOCK_SIZE)

getBlockIndex(row, col) == (row \div BLOCK_SIZE) * BLOCK_SIZE + (col \div BLOCK_SIZE)

\* the cell initializeBoard and the validator's tests create (its row and col
\* are its place in the board; hasScored is never read or written again)
NewCell(row, col) ==
  [value |-> NoValue, isInitial |-> FALSE, isError |-> FALSE, isDraft |-> FALSE,
   block |-> getBlockIndex(row, col)]

NewBoard == [row \in Idx |-> [col \in Idx |-> NewCell(row, col)]]

\* the cells a loop visits, in the order it visits them
RowCells(row) == [k \in 1..GRID_SIZE |-> <<row, k - 1>>]
ColumnCells(col) == [k \in 1..GRID_SIZE |-> <<k - 1, col>>]
BlockCells(blockRow, blockCol) ==
  [k \in 1..(BLOCK_SIZE * BLOCK_SIZE) |->
     <<blockRow + ((k - 1) \div BLOCK_SIZE), blockCol + ((k - 1) % BLOCK_SIZE)>>]

\* the block loop without its r !== row && c !== col test
validateMoveWholeBlock(b, row, col, value) ==
  LET Holds(cell) == b[cell[1]][cell[2]].value = value
      blockRow == (row \div BLOCK_SIZE) * BLOCK_SIZE
      blockCol == (col \div BLOCK_SIZE) * BLOCK_SIZE
      conflicts ==
        SelectSeq(RowCells(row), LAMBDA cell : cell[2] # col /\ Holds(cell))
        \o SelectSeq(ColumnCells(col), LAMBDA cell : cell[1] # row /\ Holds(cell))
        \o SelectSeq(BlockCells(blockRow, blockCol),
                     LAMBDA cell : cell # <<row, col>> /\ Holds(cell))
  IN  [isValid |-> Len(conflicts) = 0, conflicts |-> conflicts]

\* the row loop without its c !== col test
validateMoveOwnCell(b, row, col, value) ==
  LET Holds(cell) == b[cell[1]][cell[2]].value = value
      blockRow == (row \div BLOCK_SIZE) * BLOCK_SIZE
      blockCol == (col \div BLOCK_SIZE) * BLOCK_SIZE
      conflicts ==
        SelectSeq(RowCells(row), LAMBDA cell : Holds(cell))
        \o SelectSeq(ColumnCells(col), LAMBDA cell : cell[1] # row /\ Holds(cell))
        \o SelectSeq(BlockCells(blockRow, blockCol),
                     LAMBDA cell : cell[1] # row /\ cell[2] # col /\ Holds(cell))
  IN  [isValid |-> Len(conflicts) = 0, conflicts |-> conflicts]

validateMove(b, row, col, value) ==
  LET Holds(cell) == b[cell[1]][cell[2]].value = value
      blockRow == (row \div BLOCK_SIZE) * BLOCK_SIZE
      blockCol == (col \div BLOCK_SIZE) * BLOCK_SIZE
      conflicts ==
        SelectSeq(RowCells(row), LAMBDA cell : cell[2] # col /\ Holds(cell))
        \o SelectSeq(ColumnCells(col), LAMBDA cell : cell[1] # row /\ Holds(cell))
        \o SelectSeq(BlockCells(blockRow, blockCol),
                     LAMBDA cell : cell[1] # row /\ cell[2] # col /\ Holds(cell))
  IN  [isValid |-> Len(conflicts) = 0, conflicts |-> conflicts]

\* every filled cell is taken out, validated against the rest and put back
isBoardValid(b) ==
  \A row \in Idx, col \in Idx :
     b[row][col].value # NoValue =>
        validateMove([b EXCEPT ![row][col].value = NoValue], row, col, b[row][col].value).isValid

\* a check for empty cells only
isBoardCompleteFilled(b) == \A row \in Idx, col \in Idx : b[row][col].value # NoValue

isBoardComplete(b) ==
  /\ \A row \in Idx, col \in Idx : b[row][col].value # NoValue
  /\ isBoardValid(b)

\* the loop shared by isRowComplete, isColumnComplete and isBlockComplete:
\* false at the first empty or repeated value, else values.size === GRID_SIZE
AllDistinct(b, cells) ==
  LET values == {b[cells[k][1]][cells[k][2]].value : k \in 1..Len(cells)}
  IN  /\ \A k \in 1..Len(cells) : b[cells[k][1]][cells[k][2]].value # NoValue
      /\ Cardinality(values) = Len(cells)
      /\ Cardinality(values) = GRID_SIZE

isRowComplete(b, row) == AllDistinct(b, RowCells(row))
isColumnComplete(b, col) == AllDistinct(b, ColumnCells(col))
isBlockComplete(b, blockIndex) ==
  AllDistinct(b, BlockCells((blockIndex \div BLOCK_SIZE) * BLOCK_SIZE,
                            (blockIndex % BLOCK_SIZE) * BLOCK_SIZE))

\* board[row][col].value = grid[row][col] for the filled cells of a grid
BoardOf(g) ==
  [row \in Idx |-> [col \in Idx |->
     IF g[row][col] = 0 THEN NewCell(row, col)
     ELSE [NewCell(row, col) EXCEPT !.value = g[row][col]]]]

\* the boards the validator is called on, once each: near-complete ones (FirstSolution
\* with cells of BoardHoles emptied and at most MaxTamper cells overwritten)
\* sparse ones (the cells of SparseCells set to SparseDigit or left empty),
\* and a generated grid
BoardHoles == {<<0, 0>>, <<0, 1>>, <<3, 0>>}
SparseCells == {<<0, 1>>, <<0, 3>>, <<3, 0>>, <<1, 1>>, <<2, 2>>, <<5, 0>>}
SparseDigit == 5
ValidatorDigits == {1, 2, SparseDigit}

Sparse(filled) == [r \in Idx |-> [c \in Idx |-> IF <<r, c>> \in filled THEN SparseDigit ELSE 0]]

ValidatorGrids ==
  {Edited(cleared, tamper) :
     <<cleared, tamper>> \in {ct \in (SUBSET BoardHoles) \X Tampers :
        /\ DOMAIN ct[2] \cap ct[1] = {}
        /\ \A cell \in DOMAIN ct[2] : ct[2][cell] # FirstSolution[cell[1]][cell[2]]}}
  \cup {Sparse(filled) : filled \in SUBSET SparseCells}
  \cup {ShuffledSolution}

CallGetBlockIndex(row, col) ==
  /\ call = NoCall
  /\ call' = [name |-> "getBlockIndex", args |-> <<row, col>>,
              returned |-> getBlockIndex(row, col)]
  /\ UNCHANGED <<board, game, records, added, storage, now>>
  /\ UNCHANGED engineVars

CallValidateMove(row, col, value) ==
  /\ call = NoCall
  /\ call' = [name |-> "validateMove", args |-> <<row, col, value>>,
              returned |-> validateMove(board, row, col, value)]
  /\ UNCHANGED <<board, game, records, added, storage, now>>
  /\ UNCHANGED engineVars

CallIsBoardValid ==
  /\ call = NoCall
  /\ call' = [name |-> "isBoardValid", args |-> <<>>, returned |-> isBoardValid(board)]
  /\ UNCHANGED <<board, game, records, added, storage, now>>
  /\ UNCHANGED engineVars

CallIsBoardComplete ==
  /\ call = NoCall
  /\ call' = [name |-> "isBoardComplete", args |-> <<>>, returned |-> isBoardComplete(board)]
  /\ UNCHANGED <<board, game, records, added, storage, now>>
  /\ UNCHANGED engineVars

CallIsBlockComplete(blockIndex) ==
  /\ call = NoCall
  /\ call' = [name |-> "isBlockComplete", args |-> <<blockIndex>>,
              returned |-> isBlockComplete(board, blockIndex)]
  /\ UNCHANGED <<board, game, records, added, storage, now>>
  /\ UNCHANGED engineVars

InitValidator ==
  /\ op = "idle" /\ pc = "done"
  /\ grid = EmptyGrid
  /\ stack = <<>> /\ arg = 0 /\ ret = 0
  /\ rng = [state |-> 0, step |-> 0]
  /\ solution = Null /\ carve = NoCarve /\ puzzle = Null
  /\ result = NoResult
  /\ query = <<0, 0, 0>>
  /\ board \in {BoardOf(g) : g \in ValidatorGrids}
  /\ game = <<>> /\ records = <<>> /\ added = <<>> /\ storage = <<>> /\ now = 0
  /\ call = NoCall

NextValidator ==
  \/ \E row \in Idx, col \in Idx : board = NewBoard /\ CallGetBlockIndex(row, col)
  \/ \E row \in Idx, col \in Idx, value \in ValidatorDigits : CallValidateMove(row, col, value)
  \/ CallIsBoardValid
  \/ CallIsBoardComplete
  \/ \E blockIndex \in 0..(GRID_SIZE - 1) : CallIsBlockComplete(blockIndex)

SpecValidator == InitValidator /\ [][NextValidator]_vars

----------------------------------------------------------------------------
(* the records store *)

MAX_RECORDS_PER_DIFFICULTY == 3

\* the order addRecord and recordsByDifficulty go through the difficulties in
DifficultyOrder == <<"beginner", "intermediate", "hard", "expert">>

\* a comparator that puts the lower score first
CompareAscending(a, b) == a.score - b.score

\* (a, b) => b.score - a.score
Compare(a, b) == b.score - a.score

\* Array.prototype.sort, which is stable: x goes behind every element that the
\* comparator does not put after it
InsertSorted(sorted, x) ==
  LET n == Cardinality({k \in 1..Len(sorted) : Compare(sorted[k], x) <= 0})
  IN  SubSeq(sorted, 1, n) \o <<x>> \o SubSeq(sorted, n + 1, Len(sorted))

RECURSIVE SortRecords(_)
SortRecords(list) ==
  IF list = <<>> THEN <<>>
  ELSE InsertSorted(SortRecords(SubSeq(list, 1, Len(list) - 1)), list[Len(list)])

getRecordsByDifficulty(list, difficulty) ==
  LET sorted == SortRecords(SelectSeq(list, LAMBDA record : record.difficulty = difficulty))
  IN  SubSeq(sorted, 1, IF Len(sorted) < MAX_RECORDS_PER_DIFFICULTY
                        THEN Len(sorted) ELSE MAX_RECORDS_PER_DIFFICULTY)

\* newRecords.push(...topRecords) for each difficulty, in order
RECURSIVE TopRecords(_, _)
TopRecords(list, k) ==
  IF k > Len(DifficultyOrder) THEN <<>>
  ELSE getRecordsByDifficulty(list, DifficultyOrder[k]) \o TopRecords(list, k + 1)

\* localStorage.setItem(STORAGE_KEY, JSON.stringify(records.value)): the item
\* holds the text of the list, which JSON.parse turns back into an equal list
\* (the records hold finite numbers and strings only)
saveRecords(list) == <<"json", list>>

\* loadRecords: the parsed item, the empty list when there is none
loadRecords(item) == IF item = <<>> THEN <<>> ELSE item[2]

\* the records and the number of addRecord calls of the scenario
RecordScores == {10, 20, 30}
RecordDifficulties == {"beginner", "expert"}
MaxAdded == 5

\* addRecord(record); the id (crypto.randomUUID()) is a value no record in
\* use has
AddRecord(score, difficulty) ==
  /\ op = "records" /\ Len(added) < MaxAdded
  /\ LET newRecord == [id |-> Len(added) + 1, score |-> score, difficulty |-> difficulty]
     IN  /\ records' = TopRecords(Append(records, newRecord), 1)
         /\ storage' = saveRecords(records')
         /\ added' = Append(added, newRecord)
         /\ call' = [name |-> "addRecord", args |-> <<score, difficulty>>,
                     returned |-> newRecord]
  /\ UNCHANGED <<board, game, now>>
  /\ UNCHANGED engineVars

ClearRecords ==
  /\ op = "records" /\ records # <<>>
  /\ records' = <<>>
  /\ storage' = saveRecords(records')
  /\ added' = <<>>
  /\ call' = [name |-> "clearRecords", args |-> <<>>, returned |-> <<>>]
  /\ UNCHANGED <<board, game, now>>
  /\ UNCHANGED engineVars

\* the store is created again (the page is loaded again)
CreateRecordsStore ==
  /\ op = "records" /\ call.name # "useRecordsStore"
  /\ records' = loadRecords(storage)
  /\ call' = [name |-> "useRecordsStore", args |-> <<>>, returned |-> <<>>]
  /\ UNCHANGED <<board, game, added, storage, now>>
  /\ UNCHANGED engineVars

\* the store is created with nothing in localStorage
InitRecords ==
  /\ op = "records" /\ pc = "done"
  /\ grid = EmptyGrid
  /\ stack = <<>> /\ arg = 0 /\ ret = 0
  /\ rng = [state |-> 0, step |-> 0]
  /\ solution = Null /\ carve = NoCarve /\ puzzle = Null
  /\ result = NoResult
  /\ query = <<0, 0, 0>>
  /\ board = <<>> /\ game = <<>>
  /\ storage = <<>>
  /\ records = loadRecords(storage) /\ added = <<>>
  /\ now = 0
  /\ call = NoCall

NextRecords ==
  \/ \E score \in RecordScores, difficulty \in RecordDifficulties : AddRecord(score, difficulty)
  \/ ClearRecords
  \/ CreateRecordsStore

SpecRecords == InitRecords /\ [][NextRecords]_vars

----------------------------------------------------------------------------
(* the game store *)

SCORING_CONFIG ==
  [correctCell |-> 5, firstHint |-> 3, hintIncrement |-> 1, error |-> 1, timeBonus |-> 500]
MAX_HINTS == 10

\* Math.max(a, b)
MathMax(a, b) == IF a > b THEN a ELSE b

\* the refs of useGameStore as the store is created (board is the variable
\* `board`); `timeouts` is the browser's set of pending setTimeout callbacks,
\* each <<time due, "row" | "column" | "block", index>> (two callbacks due at
\* the same time for the same row, column or block are one: the second finds
\* nothing left to delete)
CreatedGame ==
  [solution |-> <<>>, difficulty |-> "beginner", startTime |-> 0, endTime |-> NoValue,
   isPaused |-> FALSE, pausedTime |-> 0, hintsUsed |-> 0, errors |-> 0, score |-> 0,
   isCompleted |-> FALSE, selectedCell |-> Null, moveHistory |-> <<>>,
   recentlyCompletedRows |-> {}, recentlyCompletedColumns |-> {},
   recentlyCompletedBlocks |-> {}, timeouts |-> {}]

\* hintsRemaining with one hint more than MAX_HINTS
hintsRemainingOneMore(g) == MAX_HINTS + 1 - g.hintsUsed

hintsRemaining(g) == MAX_HINTS - g.hintsUsed

\* elapsedTime without its `if (isPaused.value)` branch
elapsedTimeWhilePaused(g, t) ==
  IF g.startTime = 0 THEN 0
  ELSE LET end == IF g.endTime = NoValue \/ g.endTime = 0 THEN t ELSE g.endTime
       IN  ((end - g.startTime) \div 1000) + g.pausedTime

\* the computed elapsedTime when Date.now() is t; `endTime || Date.now()`
\* takes Date.now() for null and for 0
elapsedTime(g, t) ==
  IF g.startTime = 0 THEN 0
  ELSE IF g.isPaused THEN g.pausedTime
  ELSE LET end == IF g.endTime = NoValue \/ g.endTime = 0 THEN t ELSE g.endTime
       IN  ((end - g.startTime) \div 1000) + g.pausedTime

\* score + points without the Math.max
updateScoreUnclamped(score, points) == score + points

\* the score updateScore(points) leaves
updateScore(score, points) == MathMax(0, score + points)

calculateFinalScore(g, t) ==
  g.score + MathMax(0, SCORING_CONFIG.timeBonus - elapsedTime(g, t))

checkCompletion(b, g, t) ==
  IF isBoardComplete(b)
  THEN LET ended == [g EXCEPT !.isCompleted = TRUE, !.endTime = t]
       IN  [ended EXCEPT !.score = calculateFinalScore(ended, t)]
  ELSE g

clearErrors(b) ==
  [row \in Idx |-> [col \in Idx |-> [b[row][col] EXCEPT !.isError = FALSE]]]

\* the rows, columns or blocks added to a recentlyCompleted set, and the
\* setTimeout(..., 2000) callbacks queued for them
CompletedDelay == 2000
NewlyCompleted(was, isNow, index) == IF ~was /\ isNow THEN {index} ELSE {}
QueueTimeouts(pending, t, kind, indices) ==
  pending \cup {<<t + CompletedDelay, kind, index>> : index \in indices}

\* setCellValue from line 148 on: what it does to a cell that is not initial
RecordMove(b, g, t, row, col, value, isDraft) ==
  LET cell == b[row][col]
      wasRowComplete == isRowComplete(b, row)
      wasColComplete == isColumnComplete(b, col)
      wasBlockComplete == isBlockComplete(b, cell.block)
      pushed == [g EXCEPT !.moveHistory =
                   Append(@, [row |-> row, col |-> col,
                              oldValue |-> cell.value, newValue |-> value])]
      placed == [clearErrors(b) EXCEPT ![row][col].value = value,
                                       ![row][col].isDraft = isDraft]
      validation == validateMove(placed, row, col, value)
      conflicts == {validation.conflicts[k] : k \in 1..Len(validation.conflicts)}
      marked == [r \in Idx |-> [c \in Idx |->
                   IF <<r, c>> = <<row, col>> \/ <<r, c>> \in conflicts
                   THEN [placed[r][c] EXCEPT !.isError = TRUE]
                   ELSE placed[r][c]]]
      failed == [pushed EXCEPT !.errors = @ + 1,
                               !.score = updateScore(@, -SCORING_CONFIG.error)]
      rows == NewlyCompleted(wasRowComplete, isRowComplete(placed, row), row)
      columns == NewlyCompleted(wasColComplete, isColumnComplete(placed, col), col)
      blocks == NewlyCompleted(wasBlockComplete, isBlockComplete(placed, cell.block),
                               cell.block)
      scored == [pushed EXCEPT
                   !.score = updateScore(@, SCORING_CONFIG.correctCell),
                   !.recentlyCompletedRows = @ \cup rows,
                   !.recentlyCompletedColumns = @ \cup columns,
                   !.recentlyCompletedBlocks = @ \cup blocks,
                   !.timeouts = QueueTimeouts(QueueTimeouts(QueueTimeouts(@,
                                   t, "row", rows), t, "column", columns), t, "block", blocks)]
  IN  IF value # NoValue /\ ~isDraft
      THEN IF ~validation.isValid
           THEN [board |-> marked, game |-> checkCompletion(marked, failed, t)]
           ELSE IF value = g.solution[row][col]
           THEN [board |-> placed, game |-> checkCompletion(placed, scored, t)]
           ELSE LET wrong == [placed EXCEPT ![row][col].isError = TRUE]
                IN  [board |-> wrong, game |-> checkCompletion(wrong, failed, t)]
      ELSE [board |-> placed, game |-> pushed]

\* setCellValue without its `if (cell.isInitial) return`
setCellValueAnyCell(b, g, t, row, col, value, isDraft) ==
  RecordMove(b, g, t, row, col, value, isDraft)

\* the board and the refs setCellValue(row, col, value, isDraft) leaves when
\* Date.now() is t
setCellValue(b, g, t, row, col, value, isDraft) ==
  IF b[row][col].isInitial THEN [board |-> b, game |-> g]
  ELSE RecordMove(b, g, t, row, col, value, isDraft)

\* the board and the refs useHint() leaves, and what it returns
useHint(b, g, t) ==
  IF hintsRemaining(g) = 0 \/ g.selectedCell = Null
  THEN [board |-> b, game |-> g, returned |-> Null]
  ELSE LET row == g.selectedCell[1]
           col == g.selectedCell[2]
           cell == b[row][col]
       IN  IF cell.isInitial \/ cell.value = g.solution[row][col]
           THEN [board |-> b, game |-> g, returned |-> Null]
           ELSE LET used == [g EXCEPT !.hintsUsed = @ + 1]
                    hintValue == g.solution[row][col]
                    hintPenalty == -(SCORING_CONFIG.firstHint
                                     + (used.hintsUsed - 1) * SCORING_CONFIG.hintIncrement)
                    paid == [used EXCEPT !.score = updateScore(@, hintPenalty)]
                    set == setCellValue(b, paid, t, row, col, hintValue, FALSE)
                IN  [board |-> set.board, game |-> set.game,
                     returned |-> <<row, col, hintValue>>]

\* the games of the scenario: generateSolution returns FirstSolution and
\* createPuzzle a puzzle with the cells of one of PuzzleHoles empty (each has
\* the one solution; the store reads the puzzle only as `puzzle[row][col] !== 0`).
\* The player enters the values of EnteredMoves (<<row, col, value, isDraft>>:
\* the right value and a wrong one, an erasure, a draft, an initial cell)
\* and selects the cells of SelectCells.
PuzzleHoles == {{<<0, 0>>}, {<<0, 0>>, <<0, 1>>, <<3, 0>>}}
GamePuzzle(holes) ==
  [row \in Idx |-> [col \in Idx |->
     IF <<row, col>> \in holes THEN 0 ELSE FirstSolution[row][col]]]
EnteredMoves ==
  {<<0, 0, 1, FALSE>>, <<0, 0, 2, FALSE>>, <<0, 0, NoValue, FALSE>>,
   <<0, 0, 1, TRUE>>, <<0, 1, 2, FALSE>>, <<3, 0, 2, FALSE>>, <<0, 2, 1, FALSE>>}
SelectCells == {<<0, 0>>, <<0, 2>>}

\* Date.now() as the store is created, the time between two looks at the
\* clock, and how many of them a run has
FirstNow == 10000
TickMs == 1500
MaxTicks == 2

\* a game is played while the move history has fewer than MaxMoves moves,
\* fewer than MaxErrors errors were made, the score, the time bonus of a
\* finished game left aside, is below MaxScore, and fewer than MaxTimeouts
\* setTimeout callbacks are pending
MaxMoves == 2
MaxErrors == 2
MaxScore == 6
MaxTimeouts == 3
MaxHintsPlayed == 2
InPlay ==
  /\ Len(game.moveHistory) < MaxMoves
  /\ game.errors < MaxErrors
  /\ game.score < MaxScore + (IF game.isCompleted THEN SCORING_CONFIG.timeBonus ELSE 0)
  /\ Cardinality(game.timeouts) < MaxTimeouts

\* startNewGame has been called
Started == op = "game" /\ board # <<>>

StartNewGame(selectedDifficulty, created) ==
  /\ op = "game"
  /\ game' = [CreatedGame EXCEPT !.difficulty = selectedDifficulty,
                                 !.startTime = now,
                                 !.solution = FirstSolution,
                                 !.timeouts = game.timeouts]
  /\ board' = [row \in Idx |-> [col \in Idx |->
                 IF created[row][col] # 0
                 THEN [NewCell(row, col) EXCEPT !.value = created[row][col],
                                                !.isInitial = TRUE]
                 ELSE NewCell(row, col)]]
  /\ call' = [name |-> "startNewGame", args |-> <<selectedDifficulty>>, returned |-> <<>>]
  /\ UNCHANGED <<records, added, storage, now>>
  /\ UNCHANGED engineVars

SelectCell(row, col) ==
  /\ Started
  /\ game' = [game EXCEPT !.selectedCell = <<row, col>>]
  /\ call' = NoCall
  /\ UNCHANGED <<board, records, added, storage, now>>
  /\ UNCHANGED engineVars

ClearSelection ==
  /\ Started
  /\ game' = [game EXCEPT !.selectedCell = Null]
  /\ call' = NoCall
  /\ UNCHANGED <<board, records, added, storage, now>>
  /\ UNCHANGED engineVars

\* a call of setCellValue; `before` keeps the board and the move history the
\* call found
SetCellValue(row, col, value, isDraft) ==
  /\ Started
  /\ LET set == setCellValue(board, game, now, row, col, value, isDraft)
     IN  /\ board' = set.board
         /\ game' = set.game
  /\ call' = [name |-> "setCellValue", args |-> <<row, col, value, isDraft>>,
              returned |-> <<>>,
              before |-> [board |-> board, moveHistory |-> game.moveHistory]]
  /\ UNCHANGED <<records, added, storage, now>>
  /\ UNCHANGED engineVars

UseHint ==
  /\ Started
  /\ LET hint == useHint(board, game, now)
     IN  /\ board' = hint.board
         /\ game' = hint.game
         /\ call' = [name |-> "useHint", args |-> <<>>, returned |-> hint.returned]
  /\ UNCHANGED <<records, added, storage, now>>
  /\ UNCHANGED engineVars

Undo ==
  /\ Started
  /\ IF Len(game.moveHistory) = 0
     THEN UNCHANGED <<board, game>>
     ELSE LET lastMove == game.moveHistory[Len(game.moveHistory)]
          IN  /\ game' = [game EXCEPT !.moveHistory = SubSeq(@, 1, Len(@) - 1)]
              /\ board' = clearErrors([board EXCEPT
                             ![lastMove.row][lastMove.col].value = lastMove.oldValue,
                             ![lastMove.row][lastMove.col].isDraft = FALSE,
                             ![lastMove.row][lastMove.col].isError = FALSE])
  /\ call' = [name |-> "undo", args |-> <<>>, returned |-> <<>>]
  /\ UNCHANGED <<records, added, storage, now>>
  /\ UNCHANGED engineVars

TogglePause ==
  /\ Started
  /\ IF game.isCompleted THEN UNCHANGED game
     ELSE IF ~game.isPaused
     THEN game' = [game EXCEPT !.isPaused = TRUE, !.pausedTime = elapsedTime(game, now)]
     ELSE game' = [game EXCEPT !.isPaused = FALSE,
                               !.startTime = now - game.pausedTime * 1000,
                               !.pausedTime = 0]
  /\ call' = [name |-> "togglePause", args |-> <<>>, returned |-> <<>>]
  /\ UNCHANGED <<board, records, added, storage, now>>
  /\ UNCHANGED engineVars

\* the callback of a setTimeout that is due, the ones due earlier first: it
\* deletes its row, column or block from the recentlyCompleted set
CompletedTimeout ==
  /\ Started
  /\ \E timeout \in game.timeouts :
       /\ now >= timeout[1]
       /\ \A other \in game.timeouts : timeout[1] <= other[1]
       /\ LET kind == timeout[2]
              index == timeout[3]
          IN  game' = [game EXCEPT
                !.timeouts = @ \ {timeout},
                !.recentlyCompletedRows = IF kind = "row" THEN @ \ {index} ELSE @,
                !.recentlyCompletedColumns = IF kind = "column" THEN @ \ {index} ELSE @,
                !.recentlyCompletedBlocks = IF kind = "block" THEN @ \ {index} ELSE @]
  /\ call' = NoCall
  /\ UNCHANGED <<board, records, added, storage, now>>
  /\ UNCHANGED engineVars

\* time passes
Tick ==
  /\ Started
  /\ now + TickMs <= FirstNow + MaxTicks * TickMs
  /\ now' = now + TickMs
  /\ UNCHANGED <<board, game, records, added, storage, call>>
  /\ UNCHANGED engineVars

\* the store is created
InitGame ==
  /\ op = "game" /\ pc = "done"
  /\ grid = EmptyGrid
  /\ stack = <<>> /\ arg = 0 /\ ret = 0
  /\ rng = [state |-> 0, step |-> 0]
  /\ solution = Null /\ carve = NoCarve /\ puzzle = Null
  /\ result = NoResult
  /\ query = <<0, 0, 0>>
  /\ board = <<>> /\ game = CreatedGame
  /\ records = <<>> /\ added = <<>> /\ storage = <<>>
  /\ now = FirstNow
  /\ call = NoCall

NextGame ==
  \/ \E holes \in PuzzleHoles : StartNewGame("beginner", GamePuzzle(holes))
  \/ \E cell \in SelectCells : SelectCell(cell[1], cell[2])
  \/ ClearSelection
  \/ \E move \in EnteredMoves :
        InPlay /\ SetCellValue(move[1], move[2], move[3], move[4])
  \/ InPlay /\ game.hintsUsed < MaxHintsPlayed /\ UseHint
  \/ Undo
  \/ TogglePause

SpecGame == InitGame /\ [][NextGame]_vars

\* games played with hints: the player selects a cell, asks for hints and
\* takes moves back, and enters the values of HintMoves (a right one next to
\* the selected cell, a wrong one in it)
HintMoves == {<<0, 1, 2, FALSE>>, <<0, 0, 2, FALSE>>}

NextHints ==
  \/ \E holes \in PuzzleHoles : StartNewGame("beginner", GamePuzzle(holes))
  \/ \E cell \in SelectCells : SelectCell(cell[1], cell[2])
  \/ ClearSelection
  \/ \E move \in HintMoves :
        InPlay /\ SetCellValue(move[1], move[2], move[3], move[4])
  \/ UseHint
  \/ Undo

SpecHints == InitGame /\ [][NextHints]_vars

\* games played against the clock: the player enters the values of TimedMoves
\* (right ones), pauses and resumes
TimedMoves == {<<0, 0, 1, FALSE>>, <<3, 0, 2, FALSE>>}

NextClock ==
  \/ \E holes \in PuzzleHoles : StartNewGame("beginner", GamePuzzle(holes))
  \/ \E move \in TimedMoves :
        InPlay /\ SetCellValue(move[1], move[2], move[3], move[4])
  \/ Undo
  \/ TogglePause
  \/ CompletedTimeout
  \/ Tick

SpecClock == InitGame /\ [][NextClock]_vars

----------------------------------------------------------------------------
(* claims *)

\* the cells sharing a row, a column or a 3x3 block with a cell
PeersOf ==
  [a \in Cells |->
     {b \in Cells \ {a} :
        \/ b[1] = a[1]
        \/ b[2] = a[2]
        \/ (b[1] \div BLOCK_SIZE = a[1] \div BLOCK_SIZE /\ b[2] \div BLOCK_SIZE = a[2] \div BLOCK_SIZE)}]

At(g, cell) == g[cell[1]][cell[2]]

\* a complete valid Sudoku grid
IsValidSolution(g) ==
  /\ \A r \in Idx : {g[r][c] : c \in Idx} = Digits
  /\ \A c \in Idx : {g[r][c] : r \in Idx} = Digits
  /\ \A br \in 0..(BLOCK_SIZE - 1) : \A bc \in 0..(BLOCK_SIZE - 1) :
        {g[br * BLOCK_SIZE + i][bc * BLOCK_SIZE + j] :
            i \in 0..(BLOCK_SIZE - 1), j \in 0..(BLOCK_SIZE - 1)} = Digits

\* no two preset cells of one row, column or block hold the same digit
Consistent(g) ==
  \A a \in Cells : At(g, a) # 0 => \A b \in PeersOf[a] : At(g, b) # At(g, a)

HasRowConflict(g) ==
  \E r \in Idx, c1 \in Idx, c2 \in Idx : c1 # c2 /\ g[r][c1] # 0 /\ g[r][c1] = g[r][c2]

\* the valid complete grids that keep every preset cell of g
RECURSIVE Completions(_)
Completions(g) ==
  LET empty == Cells \ Filled(g)
  IN  IF empty = {} THEN (IF IsValidSolution(g) THEN {g} ELSE {})
      ELSE LET cell == CHOOSE e \in empty : TRUE
               free == {d \in Digits : \A b \in PeersOf[cell] : At(g, b) # d}
           IN  UNION {Completions([g EXCEPT ![cell[1]][cell[2]] = d]) : d \in free}

\* g comes before h in search order: cells row-major, digits ascending
Before(g, h) ==
  \E p \in 0..(GRID_SIZE * GRID_SIZE - 1) :
     /\ g[p \div GRID_SIZE][p % GRID_SIZE] < h[p \div GRID_SIZE][p % GRID_SIZE]
     /\ \A q \in 0..(p - 1) : g[q \div GRID_SIZE][q % GRID_SIZE] = h[q \div GRID_SIZE][q % GRID_SIZE]

Visible(g) == Cardinality(Filled(g))

\* C1: whatever the shuffles, the grid generateSolution returns has no empty
\* cell and every row, column and 3x3 block holds each digit 1-9 exactly once.
C1_GeneratedSolutionValid ==
  (op = "generateSolution" /\ pc = "done") =>
     /\ \A r \in Idx, c \in Idx : result.generated[r][c] \in Digits
     /\ IsValidSolution(result.generated)

\* a generated grid whose search had to take back at least one placement
C1_Witness ==
  /\ op = "generateSolution" /\ pc = "done"
  /\ IsValidSolution(result.generated)
  /\ rng.step = 37

\* C2: countSolutions on the puzzle createPuzzle returned equals 1: the puzzle
\* has exactly one valid completion.
C2_CreatedPuzzleUnique ==
  (result.created # Null /\ result.counted # -1) => result.counted = 1

C2_Witness ==
  /\ result.created # Null /\ result.counted = 1
  /\ Visible(result.created) < GRID_SIZE * GRID_SIZE
  /\ carve.removed < carve.i - 1

\* C3: createPuzzle only ever clears cells: between its loop iterations and in
\* the grid it returns, every non-empty cell holds the digit of the same cell
\* of solution.
C3_CreatedKeepsSolutionDigits ==
  /\ (op = "createPuzzle" /\ pc \in {"iterate", "done"}) =>
        \A cell \in Cells : At(grid, cell) \in {0, At(solution, cell)}
  /\ result.created # Null =>
        \A cell \in Cells : At(result.created, cell) # 0 =>
                               At(result.created, cell) = At(solution, cell)

\* a returned puzzle with cleared cells, some cell having been restored
C3_Witness ==
  /\ result.created # Null
  /\ Visible(result.created) < GRID_SIZE * GRID_SIZE
  /\ carve.removed < carve.i - 1
  /\ op = "createPuzzle"

\* C4: the number of non-empty cells of the puzzle createPuzzle returns lies
\* within the difficulty's inclusive range [min, max].
C4_VisibleWithinRange ==
  result.created # Null =>
     /\ Visible(result.created) >= DIFFICULTY_CONFIGS[carve.difficulty].min
     /\ Visible(result.created) <= DIFFICULTY_CONFIGS[carve.difficulty].max

\* C5: solvePuzzle(createPuzzle(solution, d)) is not null and is cell for cell
\* equal to solution.
C5_SolveCreatedGivesSolution ==
  (result.created # Null /\ result.solved # Pending) => result.solved = solution

\* solve had to take back a placement on the way
C5_Witness ==
  /\ result.created # Null /\ result.solved = solution
  /\ op = "solvePuzzle" /\ pc = "done"
  /\ solution = ShuffledSolution
  /\ carve.difficulty = "expert"

\* C6: on a grid whose cell (row, col) is empty, isValidPlacement is false
\* exactly when some cell of the same row, column or 3x3 block holds the value.
C6_PlacementMatchesPeers ==
  (query[3] # 0 /\ grid[query[1]][query[2]] = 0) =>
     (result.valid = (\A b \in PeersOf[<<query[1], query[2]>>] : At(grid, b) # query[3]))

\* the value sits in the block of the cell, in another row and column
C6_Witness ==
  /\ query[3] # 0 /\ result.valid = FALSE /\ grid[query[1]][query[2]] = 0
  /\ \E b \in PeersOf[<<query[1], query[2]>>] :
        b[1] # query[1] /\ b[2] # query[2] /\ At(grid, b) = query[3]

\* C7 as stated: the content of cell (row, col) never matters to
\* isValidPlacement(grid, row, col, value).
C7_OwnCellIrrelevant ==
  query[3] # 0 =>
     \A v \in 0..9 :
        isValidPlacement([grid EXCEPT ![query[1]][query[2]] = v],
                         query[1], query[2], query[3]) = result.valid

\* C7 amended: isValidPlacement compares the value with every cell of the row,
\* the column and the block, (row, col) included: it is false when (row, col)
\* holds the value, and any other content of (row, col) does not matter.
C7_OwnCellCompared ==
  query[3] # 0 =>
     /\ grid[query[1]][query[2]] = query[3] => result.valid = FALSE
     /\ grid[query[1]][query[2]] # query[3] =>
           \A v \in (0..9) \ {query[3]} :
              isValidPlacement([grid EXCEPT ![query[1]][query[2]] = v],
                               query[1], query[2], query[3]) = result.valid

\* the cell holds the value and no other cell of its row, column or block does
C7_Witness ==
  /\ query[3] # 0 /\ result.valid = FALSE
  /\ grid[query[1]][query[2]] = query[3]
  /\ \A b \in PeersOf[<<query[1], query[2]>>] : At(grid, b) # query[3]

\* C8: solvePuzzle returns null for every grid in which two preset cells of
\* one row hold the same digit.
C8_RowConflictGivesNull ==
  (op = "solvePuzzle" /\ pc = "done" /\ HasRowConflict(puzzle)) => result.solved = Null

\* C9: on an internally consistent puzzle solvePuzzle returns null exactly when
\* the puzzle has no valid completion, and otherwise the valid completion that
\* comes first in search order.
C9_SolveFindsFirstCompletion ==
  (op = "solvePuzzle" /\ pc = "done" /\ solution = Null /\ Consistent(puzzle)) =>
     LET all == Completions(puzzle)
     IN  IF all = {} THEN result.solved = Null
         ELSE /\ result.solved \in all
              /\ \A other \in all \ {result.solved} : Before(result.solved, other)

\* a puzzle with empty cells and more than one completion, solved
C9_Witness ==
  /\ op = "solvePuzzle" /\ pc = "done"
  /\ solution = Null /\ result.solved # Null
  /\ Consistent(puzzle)
  /\ Cardinality(Completions(puzzle)) >= 2

\* C10: on an internally consistent grid countSolutions returns min(N, 2), N
\* the number of valid completions of the grid.
C10_CountIsCappedNumberOfCompletions ==
  (op = "countSolutions" /\ pc = "done" /\ solution = Null /\ Consistent(puzzle)) =>
     LET n == Cardinality(Completions(puzzle))
     IN  result.counted = IF n < 2 THEN n ELSE 2

\* a grid with more than two completions, counted
C10_Witness ==
  /\ op = "countSolutions" /\ pc = "done"
  /\ solution = Null /\ result.counted = 2
  /\ Consistent(puzzle)
  /\ Cardinality(Completions(puzzle)) >= 3

C12_FillGridSucceeds ==
  <>(op = "generateSolution" /\ pc = "done" /\ stack = <<>> /\ ret = TRUE)

\* a finished fill that did not simply take the digits in order
C12_Witness ==
  /\ op = "generateSolution" /\ pc = "done" /\ stack = <<>> /\ ret = TRUE
  /\ result.generated # FirstSolution
  /\ findEmptyCell(result.generated) = Null

\* the cells of the 3x3 block of a cell
BlockOf(row, col) ==
  {cell \in Cells : /\ cell[1] \div BLOCK_SIZE = row \div BLOCK_SIZE
                    /\ cell[2] \div BLOCK_SIZE = col \div BLOCK_SIZE}

\* the grid with the contents of a board, null as 0
ValuesOf(b) ==
  [r \in Idx |-> [c \in Idx |-> IF b[r][c].value = NoValue THEN 0 ELSE b[r][c].value]]

\* C13: getBlockIndex(row, col) is 3 * floor(row / 3) + floor(col / 3), a value
\* in 0..8; the cells whose emptiness isBlockComplete notices for that index
\* are the nine cells of the block of (row, col), and the cells off the row and
\* the column of (row, col) that isValidPlacement and validateMove compare with
\* are the cells of that block.
C13_BlockIndexIdentifiesBlock ==
  call.name = "getBlockIndex" =>
     LET row == call.args[1]
         col == call.args[2]
         full == BoardOf(FirstSolution)
         examined == {cell \in Cells :
            ~isBlockComplete([full EXCEPT ![cell[1]][cell[2]].value = NoValue], call.returned)}
         offLines == {cell \in Cells : cell[1] # row /\ cell[2] # col}
         placement == {cell \in offLines :
            ~isValidPlacement([EmptyGrid EXCEPT ![cell[1]][cell[2]] = SparseDigit],
                              row, col, SparseDigit)}
         move == {cell \in offLines :
            ~validateMove([NewBoard EXCEPT ![cell[1]][cell[2]].value = SparseDigit],
                          row, col, SparseDigit).isValid}
     IN  /\ call.returned = BLOCK_SIZE * (row \div BLOCK_SIZE) + (col \div BLOCK_SIZE)
         /\ call.returned \in 0..(GRID_SIZE - 1)
         /\ examined = BlockOf(row, col)
         /\ Cardinality(examined) = GRID_SIZE
         /\ placement = BlockOf(row, col) \cap offLines
         /\ move = BlockOf(row, col) \cap offLines

\* getBlockIndex(2, 5) = 1, a cell for which rows and columns must not be exchanged
C13_Witness ==
  /\ call.name = "getBlockIndex" /\ call.args = <<2, 5>> /\ call.returned = 1

\* C14: the conflicts list of validateMove holds exactly the cells other than
\* (row, col) of the same row, column or block whose value equals value, each
\* once, and isValid is true exactly when there is none.
C14_ConflictsAreThePeersHoldingValue ==
  call.name = "validateMove" =>
     LET conflicts == call.returned.conflicts
         expected == {cell \in PeersOf[<<call.args[1], call.args[2]>>] :
                        board[cell[1]][cell[2]].value = call.args[3]}
     IN  /\ {conflicts[k] : k \in 1..Len(conflicts)} = expected
         /\ Len(conflicts) = Cardinality(expected)
         /\ call.returned.isValid = (expected = {})

\* several conflicts, one of them in the row and in the block of the cell
C14_Witness ==
  /\ call.name = "validateMove" /\ call.args = <<0, 0, SparseDigit>>
  /\ Len(call.returned.conflicts) >= 3
  /\ \E k \in 1..Len(call.returned.conflicts) : call.returned.conflicts[k] = <<0, 1>>
  /\ \E k \in 1..Len(call.returned.conflicts) : call.returned.conflicts[k] = <<2, 2>>

\* C15: isBoardComplete is true exactly when no cell is empty and every row,
\* column and block holds each digit 1-9 once.
C15_CompleteIffValidSolution ==
  call.name = "isBoardComplete" => call.returned = IsValidSolution(ValuesOf(board))

\* a board filled from a generated grid, found complete
C15_Witness ==
  /\ call.name = "isBoardComplete" /\ call.returned = TRUE
  /\ ValuesOf(board) = ShuffledSolution

\* the entries of a list of records
Entries(list) == {list[k] : k \in 1..Len(list)}

\* C16: for each difficulty the store holds at most 3 records, they are records
\* added since the last clearRecords, no added record left out scores more
\* than a held one, none is left out while fewer than 3 are held, and
\* getRecordsByDifficulty returns the held ones by non-increasing score.
C16_TopThreeKept ==
  op = "records" =>
     \A difficulty \in Difficulty :
        LET held == {record \in Entries(records) : record.difficulty = difficulty}
            all == {record \in Entries(added) : record.difficulty = difficulty}
            listed == getRecordsByDifficulty(records, difficulty)
        IN  /\ Len(SelectSeq(records, LAMBDA record : record.difficulty = difficulty))
                 = Cardinality(held)
            /\ Cardinality(held) <= MAX_RECORDS_PER_DIFFICULTY
            /\ held \subseteq all
            /\ Cardinality(held) = IF Cardinality(all) < 3 THEN Cardinality(all) ELSE 3
            /\ \A kept \in held, dropped \in all \ held : kept.score >= dropped.score
            /\ Entries(listed) = held /\ Len(listed) = Cardinality(held)
            /\ \A k \in 1..(Len(listed) - 1) : listed[k].score >= listed[k + 1].score

\* a fourth record of one difficulty has pushed out a lower one
C16_Witness ==
  /\ op = "records"
  /\ \E dropped \in Entries(added) \ Entries(records) :
        /\ dropped.id < Len(added)
        /\ \E kept \in Entries(records) :
              kept.difficulty = dropped.difficulty /\ kept.score > dropped.score /\ kept.id > dropped.id

\* C17: a setCellValue call on a cell whose isInitial flag is set changes
\* nothing: the board (that cell's value and flags and every other cell) and
\* every ref of the store (move history, score, errors, completion flag
\* among them) are after the call what they were before it.
C17_InitialCellUnchanged ==
  [][(/\ call'.name = "setCellValue"
      /\ Started
      /\ board[call'.args[1]][call'.args[2]].isInitial)
     => (board' = board /\ game' = game)]_vars

\* setCellValue has returned from a call that asked for another value in an
\* initial cell, in a game with moves, errors and a score
C17_Witness ==
  /\ call.name = "setCellValue"
  /\ board[call.args[1]][call.args[2]].isInitial
  /\ board[call.args[1]][call.args[2]].value # call.args[3]
  /\ game.moveHistory # <<>>
  /\ game.errors > 0
  /\ game.score > 0

\* C18: in every state of a game (after startNewGame, whatever setCellValue,
\* useHint, undo and togglePause calls followed, the game completed or not)
\* the score is not negative.
C18_ScoreNeverNegative == Started => game.score >= 0

\* setCellValue has returned from a call that took the point of a second
\* error from a score of 0
C18_Witness ==
  /\ Started
  /\ call.name = "setCellValue"
  /\ game.errors > 1
  /\ game.score = 0

\* the selected cell may be given a hint: there is one, it is not initial, it
\* does not hold its solution value and fewer than MAX_HINTS hints were used
HintAllowed ==
  /\ game.selectedCell # Null
  /\ ~board[game.selectedCell[1]][game.selectedCell[2]].isInitial
  /\ board[game.selectedCell[1]][game.selectedCell[2]].value
       # game.solution[game.selectedCell[1]][game.selectedCell[2]]
  /\ game.hintsUsed < MAX_HINTS

\* C19: useHint changes the state of the game only when a cell is selected
\* that is not initial and does not hold its solution value, and fewer than 10
\* hints were used (it then counts the hint and returns it); otherwise it
\* returns null and the board and every ref are as before. In every state of
\* a game hintsUsed is at most 10 and hintsRemaining at least 0.
C19_HintOnlyWhenAllowed ==
  /\ [](Started => game.hintsUsed <= MAX_HINTS /\ hintsRemaining(game) >= 0)
  /\ [][(call'.name = "useHint" /\ Started) =>
          IF HintAllowed
          THEN /\ game'.hintsUsed = game.hintsUsed + 1
               /\ call'.returned # Null
          ELSE /\ call'.returned = Null
               /\ board' = board
               /\ game' = game]_vars

\* useHint has returned null for a cell that is selected, not initial and
\* not right, because ten hints were used
C19_Witness ==
  /\ call.name = "useHint"
  /\ call.returned = Null
  /\ game.hintsUsed = MAX_HINTS
  /\ game.selectedCell # Null
  /\ ~board[game.selectedCell[1]][game.selectedCell[2]].isInitial
  /\ board[game.selectedCell[1]][game.selectedCell[2]].value
       # game.solution[game.selectedCell[1]][game.selectedCell[2]]

\* C20: the n-th successful hint of a game costs 3 + (n - 1) points: the
\* score after the useHint call that returns it is
\* max(0, score before the call - (3 + (n - 1))).
C20_HintCosts ==
  [][(call'.name = "useHint" /\ call'.returned # Null /\ Started) =>
       game'.score = MathMax(0, game.score - (SCORING_CONFIG.firstHint
                                  + (game'.hintsUsed - 1) * SCORING_CONFIG.hintIncrement))]_vars

\* C21: undo reverts the most recent recorded move: when undo follows a
\* setCellValue call on a non-initial cell, that cell's value and draft flag,
\* every other cell's value and the move history are what they were before
\* the setCellValue call; undo with an empty move history changes nothing.
C21_UndoRevertsMove ==
  [][(call'.name = "undo" /\ Started) =>
       IF game.moveHistory = <<>>
       THEN board' = board /\ game' = game
       ELSE (/\ call.name = "setCellValue"
             /\ ~board[call.args[1]][call.args[2]].isInitial)
            => /\ \A row \in Idx, col \in Idx :
                    board'[row][col].value = call.before.board[row][col].value
               /\ board'[call.args[1]][call.args[2]].isDraft
                    = call.before.board[call.args[1]][call.args[2]].isDraft
               /\ game'.moveHistory = call.before.moveHistory]_vars

ScoredEntry ==
  LET price == SCORING_CONFIG.firstHint
                 + (game'.hintsUsed - 1) * SCORING_CONFIG.hintIncrement
      paid == IF call'.name = "useHint" THEN MathMax(0, game.score - price) ELSE game.score
  IN  paid + SCORING_CONFIG.correctCell

\* C23: within one game the time bonus max(0, 500 - seconds elapsed) is added
\* to the score once, at the step where the game becomes completed, and no
\* step after that (entering a value, hint, undo) adds it again or changes
\* the score in any other way.
C23_TimeBonusOnce ==
  [][(Started /\ call'.name # "startNewGame") =>
       /\ (~game.isCompleted /\ game'.isCompleted)
            => game'.score = ScoredEntry
                 + MathMax(0, SCORING_CONFIG.timeBonus - elapsedTime(game', now'))
       /\ game.isCompleted => (game'.isCompleted /\ game'.score = game.score)]_vars

\* C24: the puzzle is won when it is completed with all correct numbers: in
\* every state of a game, if every cell of the board holds its solution value
\* and no cell is a draft, isCompleted is true.
C24_WonWhenAllCorrect ==
  (/\ Started
   /\ \A row \in Idx, col \in Idx :
        /\ board[row][col].value = game.solution[row][col]
        /\ ~board[row][col].isDraft)
  => game.isCompleted

\* the cells of the returned puzzle that countSolutions was called without
ClearedForCount ==
  {cell \in Cells : At(result.created, cell) # 0 /\ At(result.countedGrid, cell) = 0}

\* C25: createPuzzle stops clearing cells when it has reached its target or
\* nothing more can be cleared: the puzzle it returns never has fewer than
\* 81 - cellsToRemove non-empty cells; it has exactly that many, or it has
\* more, every position was tried, and the puzzle with any one more cell
\* cleared has more than one solution.
C25_StopsAtTargetOrWhenStuck ==
  result.created # Null =>
     /\ Visible(result.created) >= GRID_SIZE * GRID_SIZE - carve.cellsToRemove
     /\ Visible(result.created) > GRID_SIZE * GRID_SIZE - carve.cellsToRemove =>
          /\ carve.i > Len(carve.positions)
          /\ (result.counted # -1 /\ Cardinality(ClearedForCount) = 1) => result.counted > 1

\* a puzzle returned with more cells than aimed at, and the count for it with
\* one more cell cleared
C25_Witness ==
  /\ result.created # Null
  /\ Visible(result.created) > GRID_SIZE * GRID_SIZE - carve.cellsToRemove
  /\ result.counted > 1
  /\ Cardinality(ClearedForCount) = 1
  /\ \A cell \in Cells : At(result.created, cell) # 0 =>
                            At(result.countedGrid, cell) \in {0, At(result.created, cell)}

\* the positions createPuzzle has cleared and not restored when it is about
\* to try position n
ClearedBefore(n) ==
  {carve.positions[k] : k \in 1..(n - 1)} \cap (Cells \ Filled(grid))

\* C26: countSolutions undoes every tentative placement. When a call of
\* countSolutions returns, with 1 or stopped early at 2, the grid is the grid
\* the call was given: back in createPuzzle the empty cells are the
\* `removed` cells cleared before and the one just cleared for the count, and
\* every other cell holds its solution value; after a call on the returned
\* puzzle with one cell cleared, the grid is that puzzle with one cell
\* cleared. Between the iterations of createPuzzle and in the puzzle it
\* returns, the cells that differ from the solution are the `removed` cleared
\* ones.
C26_CountSolutionsRestoresGrid ==
  /\ (op = "createPuzzle" /\ pc = "return" /\ stack = <<>>) =>
        /\ \A cell \in Cells : At(grid, cell) \in {0, At(solution, cell)}
        /\ At(grid, carve.positions[carve.i]) = 0
        /\ Cells \ Filled(grid) = ClearedBefore(carve.i) \cup {carve.positions[carve.i]}
        /\ Cardinality(ClearedBefore(carve.i)) = carve.removed
  /\ (op = "createPuzzle" /\ pc \in {"iterate", "done"}) =>
        /\ \A cell \in Cells : At(grid, cell) \in {0, At(solution, cell)}
        /\ Cells \ Filled(grid) = ClearedBefore(carve.i)
        /\ Cardinality(ClearedBefore(carve.i)) = carve.removed
  /\ (op = "countSolutions" /\ stack = <<>> /\ pc \in {"return", "done"}) =>
        /\ \A cell \in Cells : At(grid, cell) \in {0, At(puzzle, cell)}
        /\ Cardinality(Filled(puzzle) \ Filled(grid)) = 1

\* countSolutions has returned 2 to createPuzzle, having placed and taken
\* back digits in cells cleared before, and createPuzzle is about to restore
\* the cell
C26_Witness ==
  /\ op = "createPuzzle" /\ pc = "return" /\ stack = <<>>
  /\ ret = 2
  /\ carve.removed > 1
  /\ Cells \ Filled(grid) = ClearedBefore(carve.i) \cup {carve.positions[carve.i]}

\* the grid with the contents of a board, null as 0
GridOfBoard(b) ==
  [row \in Idx |-> [col \in Idx |->
     IF b[row][col].value = NoValue THEN 0 ELSE b[row][col].value]]

\* C27: validateMove(board, row, col, value).isValid equals
\* isValidPlacement(grid, row, col, value) on the grid that has the contents
\* of the board (null as 0) with cell (row, col) emptied.
C27_ValidateMoveIsPlacementCheck ==
  call.name = "validateMove" =>
     LET row == call.args[1]
         col == call.args[2]
         value == call.args[3]
     IN  call.returned.isValid
           = isValidPlacement([GridOfBoard(board) EXCEPT ![row][col] = 0], row, col, value)

\* a value validated in the cell that already holds it, no other cell of its
\* row, column or block holding it
C27_Witness ==
  /\ call.name = "validateMove"
  /\ board[call.args[1]][call.args[2]].value = call.args[3]
  /\ call.returned.isValid

\* a value validated against a board whose only conflict is in the block,
\* off the row and the column
C27_WitnessBlockOnly ==
  /\ call.name = "validateMove"
  /\ ~call.returned.isValid
  /\ \A k \in 1..Len(call.returned.conflicts) :
        /\ call.returned.conflicts[k][1] # call.args[1]
        /\ call.returned.conflicts[k][2] # call.args[2]

============================================================================
